---- MODULE Spec2Model ----
(***************************************************************************)
(* NFLZ ("Numbered Files Leading Zeros"): the rename-planning engine of    *)
(* the nflz crate.  A directory holds entries (regular files and           *)
(* sub-directories); NFLZAssistant::new parses the file names, computes    *)
(* the padding width and builds the rename plan, check_can_rename_all      *)
(* validates it and rename_all executes it.                                *)
(*                                                                         *)
(* A file name is the sequence of its bytes (a Rust str is UTF-8, and the   *)
(* names of the model are ASCII): <<97, 40, 49, 41>> is "a(1)".  A path is  *)
(* identified with its last component: the assistant works on a single    *)
(* directory, so directory/name and name denote the same entry.            *)
(***************************************************************************)
EXTENDS Integers, Sequences, FiniteSets, TLC

VARIABLES
    fs,        \* the directory: set of [name, kind, id]; id names the data
    pc,        \* position of the caller of the library
    run,       \* how many assistants have been built on the directory
    plan,      \* NFLZAssistant.files_with_rename_info
    maxDigits, \* the max_digits NFLZAssistant::new computed for the plan
    checked,   \* result of the last check_can_rename_all call of the caller
    result,    \* what NFLZAssistant::new / rename_all returned
    next,      \* index (1-based) into files_to_rename() of the next rename
    log,       \* the std::fs::rename calls issued by rename_all, in order
    fs0,       \* the directory as it was when the current assistant was built
    confirmed, \* main.rs: the answer ask_for_confirmation returned, if any
    stdin,     \* main.rs: what stdin().read_line returned, in order
    external,  \* names of the files another process has created in the
               \* directory since the current assistant was built
    arg,       \* the argument of a single call of a function of the library
    ret        \* what that call returned

vars == <<fs, pc, run, plan, maxDigits, checked, result, next, log, fs0,
          confirmed, stdin, external, arg, ret>>

(***************************************************************************)
(* Bounds of the model.                                                    *)
(***************************************************************************)
MaxFiles == 3
MaxDirs == 2
MaxRuns == 2
MaxNameLen == 6
MaxSmallNumber == 120

(***************************************************************************)
(* Characters and strings.                                                 *)
(***************************************************************************)
\* [0-9]: the bytes 48 .. 57
IsDigit(c) == c >= 48 /\ c <= 57

\* char::to_lowercase on ASCII: the letters A..Z (65 .. 90) move up by 32
LowerChar(c) == IF c >= 65 /\ c <= 90 THEN c + 32 ELSE c

\* str::to_lowercase
to_lowercase(s) == [i \in 1..Len(s) |-> LowerChar(s[i])]

RECURSIVE StrLess(_, _)
\* Ord for str: lexicographic by bytes, a proper prefix sorts first
StrLess(a, b) ==
    IF b = <<>> THEN FALSE
    ELSE IF a = <<>> THEN TRUE
    ELSE IF Head(a) # Head(b) THEN Head(a) < Head(b)
    ELSE StrLess(Tail(a), Tail(b))

(***************************************************************************)
(* Option<String> and the values the operations return.                    *)
(***************************************************************************)
None == [some |-> FALSE, v |-> <<>>]

Some(s) == [some |-> TRUE, v |-> s]

\* A returned value: its kind, the paths or names it carries, the set it carries.
Outcome(k, p, s) == [kind |-> k, paths |-> p, set |-> s]

Ok == Outcome("Ok", <<>>, {})

NotCalled == Outcome("NotCalled", <<>>, {})

\* no single call of a function has been made
NoCall == [fn |-> "", v |-> <<>>]

(***************************************************************************)
(* math.rs                                                                 *)
(***************************************************************************)
RECURSIVE CeilLog10(_, _, _)
\* the least k with x <= 10^k, where p = 10^k
CeilLog10(x, k, p) == IF x <= p THEN k ELSE CeilLog10(x, k + 1, p * 10)

\* ((number + 1) as f64).log10().ceil() as u64.  Exact for the numbers of the
\* model (below 2^31, where number + 1 is an exact f64 and log10 is far from
\* a rounding boundary).
count_digits_without_leading_zeroes(number) == CeilLog10(number + 1, 0, 1)

(***************************************************************************)
(* file_info.rs: parsing                                                   *)
(***************************************************************************)
RECURSIVE DigitRunEnd(_, _)
\* [0-9]+ is greedy: the first position at or after i that holds no digit
DigitRunEnd(s, i) ==
    IF i <= Len(s) /\ IsDigit(s[i]) THEN DigitRunEnd(s, i + 1) ELSE i

\* A match of \([0-9]+\) starting at position i (1-based): the position of
\* its closing parenthesis (41), or 0 if there is no match at i.
MatchAt(s, i) ==
    IF s[i] = 40
    THEN LET e == DigitRunEnd(s, i + 1)
         IN  IF e > i + 1 /\ e <= Len(s) /\ s[e] = 41 THEN e ELSE 0
    ELSE 0

RECURSIVE find_iter(_, _)
\* Regex::find_iter: the leftmost non-overlapping matches, as the pairs
\* (m.start(), m.end()) of 0-based byte offsets, end exclusive.
find_iter(s, i) ==
    IF i > Len(s) THEN <<>>
    ELSE LET e == MatchAt(s, i)
         IN  IF e # 0 THEN << <<i - 1, e>> >> \o find_iter(s, e + 1)
             ELSE find_iter(s, i + 1)

\* NumberGroupIndices without the +-1 that removes the parentheses
NumberGroupIndices_WithParentheses(match_indices) ==
    IF match_indices = <<>> \/ Len(match_indices) > 1
    THEN [ok |-> FALSE, from |-> 0, to |-> 0]
    ELSE [ok |-> TRUE,
          from |-> match_indices[1][1],
          to |-> match_indices[1][2]]

\* The decision of get_number_group_indices_from_actual_filename on the
\* matches: Ok((from, to)) is the digits without the parentheses, 0-based,
\* to exclusive.
NumberGroupIndices(match_indices) ==
    IF match_indices = <<>> \/ Len(match_indices) > 1
    THEN [ok |-> FALSE, from |-> 0, to |-> 0]
    ELSE [ok |-> TRUE,
          from |-> match_indices[1][1] + 1,
          to |-> match_indices[1][2] - 1]

get_number_group_indices_from_actual_filename(actual_filename) ==
    NumberGroupIndices(find_iter(actual_filename, 1))

\* &s[from..to] with 0-based offsets, to exclusive
Slice(s, from, to) == SubSeq(s, from + 1, to)

\* get_filename_prefix_and_suffix leaving the parentheses out of the prefix
\* and the suffix
get_filename_prefix_and_suffix_WithoutParentheses(actual_filename, begin, end) ==
    <<Slice(actual_filename, 0, begin - 1),
      Slice(actual_filename, end + 1, Len(actual_filename))>>

get_filename_prefix_and_suffix(actual_filename, begin, end) ==
    <<Slice(actual_filename, 0, begin),
      Slice(actual_filename, end, Len(actual_filename))>>

RECURSIVE StripZeroes(_)
StripZeroes(ds) ==
    IF ds # <<>> /\ Head(ds) = 48 THEN StripZeroes(Tail(ds)) ELSE ds

\* u64::MAX = 18446744073709551615, as a digit string
U64MaxDigits ==
    <<49, 56, 52, 52, 54, 55, 52, 52, 48, 55, 51, 55, 48, 57, 53, 53, 49, 54,
      49, 53>>

\* The numeral n (without leading zeroes) denotes a number above u64::MAX.
NumeralExceedsU64(n) ==
    \/ Len(n) > Len(U64MaxDigits)
    \/ Len(n) = Len(U64MaxDigits) /\ StrLess(U64MaxDigits, n)

RECURSIVE DecimalValue(_, _)
DecimalValue(ds, acc) ==
    IF ds = <<>> THEN acc
    ELSE DecimalValue(Tail(ds), acc * 10 + (Head(ds) - 48))

\* u64::from_str on a non-empty string of ASCII digits
u64_from_str(ds) ==
    IF NumeralExceedsU64(StripZeroes(ds)) THEN [ok |-> FALSE, value |-> 0]
    ELSE [ok |-> TRUE, value |-> DecimalValue(ds, 0)]

RECURSIVE to_string(_)
\* Display for u64: decimal without leading zeroes, "0" for 0
to_string(n) ==
    IF n < 10 THEN <<48 + n>>
    ELSE to_string(n \div 10) \o <<48 + (n % 10)>>

\* What FileInfo::new returns once the number group was looked for: err is
\* "" on success.
FileInfoFrom(path, filename, idx, str) ==
    IF ~idx.ok
    THEN [err |-> "FilenameMustIncludeExactlyOneNumberedGroup", path |-> path,
          original_filename |-> filename, number_group_indices |-> <<0, 0>>,
          number_group_str |-> <<>>, number_group_value |-> 0]
    ELSE IF ~u64_from_str(str).ok
    THEN [err |-> "ValueInNumberedGroupNotANumber", path |-> path,
          original_filename |-> filename, number_group_indices |-> <<0, 0>>,
          number_group_str |-> <<>>, number_group_value |-> 0]
    ELSE [err |-> "", path |-> path, original_filename |-> filename,
          number_group_indices |-> <<idx.from, idx.to>>,
          number_group_str |-> str,
          number_group_value |-> u64_from_str(str).value]

\* FileInfo::new; path_to_filename is the identity on a one-component path.
FileInfo_new(path) ==
    LET idx == get_number_group_indices_from_actual_filename(path)
    IN  FileInfoFrom(path, path, idx, Slice(path, idx.from, idx.to))

filename_prefix(info) ==
    get_filename_prefix_and_suffix(info.original_filename,
        info.number_group_indices[1], info.number_group_indices[2])[1]

filename_suffix(info) ==
    get_filename_prefix_and_suffix(info.original_filename,
        info.number_group_indices[1], info.number_group_indices[2])[2]

(***************************************************************************)
(* math.rs on the whole range of u64                                       *)
(***************************************************************************)
RECURSIVE Increment(_)
\* number + 1 on a decimal numeral
Increment(ds) ==
    IF ds = <<>> THEN <<49>>
    ELSE IF ds[Len(ds)] = 57
         THEN Increment(SubSeq(ds, 1, Len(ds) - 1)) \o <<48>>
    ELSE SubSeq(ds, 1, Len(ds) - 1) \o <<ds[Len(ds)] + 1>>

\* The f64 computation cannot tell 10^k + d from 10^k for d up to
\* F64Slack(k): from 2^53 on the conversion as f64 rounds, and log10 of a
\* number that close above 10^k rounds to k (an ulp of an f64 near 15 is
\* 2^-49, near 16 .. 19 it is 2^-48).
F64Slack(k) ==
    CASE k = 15 -> 2
      [] k = 16 -> 41
      [] k = 17 -> 407
      [] k = 18 -> 4160
      [] k = 19 -> 39935
      [] OTHER -> 0

\* the numeral of 10^k + d
Pow10Plus(k, d) ==
    IF d = 0 THEN <<49>> \o [i \in 1..k |-> 48]
    ELSE <<49>> \o [i \in 1..(k - Len(to_string(d))) |-> 48] \o to_string(d)

\* (x as f64).log10().ceil() as u64 for the numeral x of a number from 1 to
\* u64::MAX
F64CeilLog10(x) ==
    IF ~StrLess(Pow10Plus(Len(x) - 1, F64Slack(Len(x) - 1)), x)
    THEN Len(x) - 1
    ELSE Len(x)

\* count_digits_without_leading_zeroes on the whole range of u64, the
\* number given as its decimal numeral: the outcomes a build can have.
\* number + 1 overflows for u64::MAX: a build with overflow checks panics,
\* one without wraps to 0, and (0 as f64).log10().ceil() as u64 is 0.
count_digits_u64(number) ==
    IF number = U64MaxDigits
    THEN {[panic |-> "attempt to add with overflow", value |-> 0],
          [panic |-> "", value |-> 0]}
    ELSE {[panic |-> "", value |-> F64CeilLog10(Increment(number))]}

(***************************************************************************)
(* file_info.rs: the rename advice                                         *)
(***************************************************************************)
\* String::from("0").repeat(n)
Zeroes(n) == [i \in 1..n |-> 48]

\* SynthesizedName with "0".repeat(digits_to_add_count - 1): one zero short
SynthesizedName_OneZeroShort(file_info, digits_to_add_count) ==
    filename_prefix(file_info) \o Zeroes(digits_to_add_count - 1)
        \o to_string(file_info.number_group_value) \o filename_suffix(file_info)

\* format!("{}{}{}", prefix, zeroes + number, suffix)
SynthesizedName(file_info, digits_to_add_count) ==
    filename_prefix(file_info) \o Zeroes(digits_to_add_count)
        \o to_string(file_info.number_group_value) \o filename_suffix(file_info)

\* How FileInfoWithRenameAdvice::new ends when digits exceeds max_digits:
\* a build with overflow checks panics at max_digits - digits; one without
\* wraps to a count near 2^64 and panics in "0".repeat(count).
SubtractionUnderflow(overflow_checks) ==
    IF overflow_checks THEN "attempt to subtract with overflow"
    ELSE "capacity overflow"

\* FileInfoWithRenameAdvice::new without its assertion that the new name
\* differs from the original one
Advice_WithoutAssertNe(file_info, max_digits, digits, new_filename, overflow_checks) ==
    IF max_digits = 0
    THEN [panic |-> "max digits must be bigger than zero",
          file_info |-> file_info, new_filename |-> None]
    ELSE IF digits > max_digits
    THEN [panic |-> SubtractionUnderflow(overflow_checks),
          file_info |-> file_info, new_filename |-> None]
    ELSE IF max_digits - digits = 0
    THEN [panic |-> "", file_info |-> file_info, new_filename |-> None]
    ELSE [panic |-> "", file_info |-> file_info, new_filename |-> Some(new_filename)]

\* The branches of FileInfoWithRenameAdvice::new.  panic is "" when the
\* constructor returns.  overflow_checks tells the build: with the checks
\* (debug) or without them (release).
Advice(file_info, max_digits, digits, new_filename, overflow_checks) ==
    IF max_digits = 0
    THEN [panic |-> "max digits must be bigger than zero",
          file_info |-> file_info, new_filename |-> None]
    ELSE IF digits > max_digits
    THEN [panic |-> SubtractionUnderflow(overflow_checks),
          file_info |-> file_info, new_filename |-> None]
    ELSE IF max_digits - digits = 0
    THEN [panic |-> "", file_info |-> file_info, new_filename |-> None]
    ELSE IF file_info.original_filename = new_filename
    THEN [panic |-> "original_filename and new_filename are equal!",
          file_info |-> file_info, new_filename |-> None]
    ELSE [panic |-> "", file_info |-> file_info, new_filename |-> Some(new_filename)]

\* FileInfoWithRenameAdvice::new
FileInfoWithRenameAdvice_new(file_info, max_digits, overflow_checks) ==
    LET digits == count_digits_without_leading_zeroes(file_info.number_group_value)
    IN  Advice(file_info, max_digits, digits,
               SynthesizedName(file_info, max_digits - digits), overflow_checks)

needs_rename(e) == e.new_filename.some

is_already_properly_named(e) == ~e.new_filename.some

path_with_new_filename(e) == e.new_filename

(***************************************************************************)
(* The file system.                                                        *)
(***************************************************************************)
FsNames(d) == {x.name : x \in d}

\* Path::exists
Exists(d, name) == name \in FsNames(d)

FsEntry(d, name) == CHOOSE x \in d : x.name = name

\* std::fs::rename(old, new) can succeed: old exists, and new is not a
\* directory (a regular file at new is replaced).
CanRename(d, old, new) ==
    /\ Exists(d, old)
    /\ Exists(d, new) => FsEntry(d, new).kind = "file"

\* The directory after a successful std::fs::rename(old, new).
FsRename(d, old, new) ==
    LET src == FsEntry(d, old)
    IN  {x \in d : x.name # old /\ x.name # new}
            \cup {[name |-> new, kind |-> src.kind, id |-> src.id]}

\* read_directory_flat: the regular files at depth 0, in an order the
\* operating system chooses.
read_directory_flat(d) ==
    LET files == {x.name : x \in {y \in d : y.kind = "file"}}
        n == Cardinality(files)
    IN  {p \in [1..n -> files] : \A i, j \in 1..n : p[i] = p[j] => i = j}

(***************************************************************************)
(* nflz.rs                                                                 *)
(***************************************************************************)
RECURSIVE files_to_nflz_file_info_vec_StopsAtFirstSkipped(_)
\* files_to_nflz_file_info_vec leaving its loop at the first path that
\* FileInfo::new rejects (break for continue)
files_to_nflz_file_info_vec_StopsAtFirstSkipped(paths) ==
    IF paths = <<>> THEN <<>>
    ELSE LET file == FileInfo_new(Head(paths))
         IN  IF file.err = ""
             THEN <<file>> \o files_to_nflz_file_info_vec_StopsAtFirstSkipped(Tail(paths))
             ELSE <<>>

RECURSIVE files_to_nflz_file_info_vec(_)
\* skips the paths FileInfo::new rejects
files_to_nflz_file_info_vec(paths) ==
    IF paths = <<>> THEN <<>>
    ELSE LET file == FileInfo_new(Head(paths))
         IN  IF file.err = "" THEN <<file>> \o files_to_nflz_file_info_vec(Tail(paths))
             ELSE files_to_nflz_file_info_vec(Tail(paths))

RECURSIVE MaxNumber(_)
\* .map(number_group_value).max().unwrap_or(0)
MaxNumber(files) ==
    IF files = <<>> THEN 0
    ELSE LET m == MaxNumber(Tail(files))
             v == Head(files).number_group_value
         IN  IF v > m THEN v ELSE m

find_max_digits(files) == count_digits_without_leading_zeroes(MaxNumber(files))

RECURSIVE InsertSorted(_, _)
\* insert e behind every entry that is not greater: the sort is stable
InsertSorted(sorted, e) ==
    IF sorted = <<>> THEN <<e>>
    ELSE IF Head(sorted).file_info.number_group_value > e.file_info.number_group_value
         THEN <<e>> \o sorted
    ELSE <<Head(sorted)>> \o InsertSorted(Tail(sorted), e)

RECURSIVE SortByNumber(_, _)
\* Vec::sort with Ord for FileInfoWithRenameAdvice (by number_group_value)
SortByNumber(todo, sorted) ==
    IF todo = <<>> THEN sorted
    ELSE SortByNumber(Tail(todo), InsertSorted(sorted, Head(todo)))

\* .map(|info| FileInfoWithRenameAdvice::new(info, max_digits)).collect()
AdviseAll(files, max_digits, overflow_checks) ==
    [i \in 1..Len(files) |->
        FileInfoWithRenameAdvice_new(files[i], max_digits, overflow_checks)]

\* The first panic while the advices are collected ("" if there is none).
FirstPanic(advised) ==
    IF \A i \in 1..Len(advised) : advised[i].panic = "" THEN ""
    ELSE advised[CHOOSE i \in 1..Len(advised) :
                    /\ advised[i].panic # ""
                    /\ \A j \in 1..(i - 1) : advised[j].panic = ""].panic

\* NFLZAssistant::new without files.sort(): the plan keeps the order in
\* which the directory was read
Assistant_Unsorted(advised, max_digits) ==
    IF FirstPanic(advised) # ""
    THEN [panic |-> FirstPanic(advised), max_digits |-> max_digits, files |-> <<>>]
    ELSE [panic |-> "", max_digits |-> max_digits, files |-> advised]

\* What NFLZAssistant::new has built from the parsed files: files.sort()
Assistant(advised, max_digits) ==
    IF FirstPanic(advised) # ""
    THEN [panic |-> FirstPanic(advised), max_digits |-> max_digits, files |-> <<>>]
    ELSE [panic |-> "", max_digits |-> max_digits,
          files |-> SortByNumber(advised, <<>>)]

\* The body of NFLZAssistant::new after the directory was read, in a build
\* with or without overflow checks.
BuildPlan(paths, overflow_checks) ==
    LET files == files_to_nflz_file_info_vec(paths)
    IN  Assistant(AdviseAll(files, find_max_digits(files), overflow_checks),
                  find_max_digits(files))

files_to_rename(p) == SelectSeq(p, needs_rename)

\* files_without_rename with the filter of files_to_rename
files_without_rename_FilterOfToRename(p) == SelectSeq(p, needs_rename)

files_without_rename(p) == SelectSeq(p, is_already_properly_named)

renamed_file_already_exists(e, d) ==
    IF path_with_new_filename(e).some
    THEN Exists(d, path_with_new_filename(e).v)
    ELSE FALSE

check_no_destination_file_already_exists(files, d) ==
    LET Conflicts(e) == renamed_file_already_exists(e, d)
        conflicting == SelectSeq(files, Conflicts)
    IN  IF conflicting = <<>> THEN Ok
        ELSE Outcome("ConflictingFiles",
                     [i \in 1..Len(conflicting) |-> conflicting[i].file_info.path],
                     {})

\* check_suffixes_and_prefixes_are_unambiguous comparing the prefixes
\* without regard to case
check_prefixes_ignoring_case(pf_list) ==
    LET prefix_set == {to_lowercase(filename_prefix(pf_list[i].file_info)) :
                          i \in 1..Len(pf_list)}
        suffix_set == {filename_suffix(pf_list[i].file_info) : i \in 1..Len(pf_list)}
        two_suffixes_only_differ_in_case ==
            /\ Cardinality(suffix_set) = 2
            /\ Cardinality({to_lowercase(q) : q \in suffix_set}) = 1
    IN  IF Cardinality(prefix_set) > 1
        THEN Outcome("AmbiguousPrefixes", <<>>, prefix_set)
        ELSE IF Cardinality(suffix_set) > 1 /\ ~two_suffixes_only_differ_in_case
        THEN Outcome("AmbiguousSuffixes", <<>>, suffix_set)
        ELSE Ok

\* check_suffixes_and_prefixes_are_unambiguous without the test
\* suffix_set.len() == 2: any number of suffixes may differ in case
check_suffixes_any_number_differing_in_case(pf_list) ==
    LET prefix_set == {filename_prefix(pf_list[i].file_info) : i \in 1..Len(pf_list)}
        suffix_set == {filename_suffix(pf_list[i].file_info) : i \in 1..Len(pf_list)}
        suffixes_only_differ_in_case ==
            Cardinality({to_lowercase(q) : q \in suffix_set}) = 1
    IN  IF Cardinality(prefix_set) > 1
        THEN Outcome("AmbiguousPrefixes", <<>>, prefix_set)
        ELSE IF Cardinality(suffix_set) > 1 /\ ~suffixes_only_differ_in_case
        THEN Outcome("AmbiguousSuffixes", <<>>, suffix_set)
        ELSE Ok

check_suffixes_and_prefixes_are_unambiguous(pf_list) ==
    LET prefix_set == {filename_prefix(pf_list[i].file_info) : i \in 1..Len(pf_list)}
        suffix_set == {filename_suffix(pf_list[i].file_info) : i \in 1..Len(pf_list)}
        two_suffixes_only_differ_in_case ==
            IF Cardinality(suffix_set) = 2
            THEN LET suffix1 == CHOOSE s \in suffix_set : TRUE
                     suffix2 == CHOOSE s \in suffix_set : s # suffix1
                 IN  to_lowercase(suffix1) = to_lowercase(suffix2)
            ELSE FALSE
    IN  IF Cardinality(prefix_set) > 1
        THEN Outcome("AmbiguousPrefixes", <<>>, prefix_set)
        ELSE IF Cardinality(suffix_set) > 1 /\ ~two_suffixes_only_differ_in_case
        THEN Outcome("AmbiguousSuffixes", <<>>, suffix_set)
        ELSE Ok

\* check_can_rename_all with its two checks in the other order
check_can_rename_all_AmbiguityFirst(p, d) ==
    LET r == check_suffixes_and_prefixes_are_unambiguous(p)
    IN  IF r.kind # "Ok" THEN r
        ELSE check_no_destination_file_already_exists(p, d)

check_can_rename_all(p, d) ==
    LET r == check_no_destination_file_already_exists(p, d)
    IN  IF r.kind # "Ok" THEN r
        ELSE check_suffixes_and_prefixes_are_unambiguous(p)

(***************************************************************************)
(* The directories the model starts from.                                  *)
(***************************************************************************)
\* "a(" and "A("
PrefixLower == <<97, 40>>

PrefixUpper == <<65, 40>>

\* ")jp"
SuffixJp == <<41, 106, 112>>

\* the number groups 0, 1, 2, 00, 01, 10, 001, 010, 100
MainDigits ==
    {<<48>>, <<49>>, <<50>>, <<48, 48>>, <<48, 49>>, <<49, 48>>,
     <<48, 48, 49>>, <<48, 49, 48>>, <<49, 48, 48>>}

\* the number groups 2 and 10
FewDigits == {<<50>>, <<49, 48>>}

\* ")Jp", ")JP" and ")k"
OtherSuffixes == {<<41, 74, 112>>, <<41, 74, 80>>, <<41, 107>>}

\* "x", "a(1)(2)jp", "a()jp", "a(1)2)jp" and "a(99999999999999999999)jp":
\* no number group, two of them, an empty one, one followed by a stray
\* parenthesis, and one above u64::MAX
OddNames ==
    {<<120>>,
     <<97, 40, 49, 41, 40, 50, 41, 106, 112>>,
     <<97, 40, 41, 106, 112>>,
     <<97, 40, 49, 41, 50, 41, 106, 112>>,
     PrefixLower \o [i \in 1..20 |-> 57] \o SuffixJp}

FileNames ==
    {PrefixLower \o d \o SuffixJp : d \in MainDigits}
        \cup {PrefixUpper \o d \o SuffixJp : d \in FewDigits}
        \cup {PrefixLower \o d \o s : d \in FewDigits, s \in OtherSuffixes}
        \cup OddNames

\* names that sub-directories of the directory may have: "a(01)jp",
\* "a(02)jp" and "a(00)jp"
DirNames ==
    {PrefixLower \o d \o SuffixJp : d \in {<<48, 49>>, <<48, 50>>, <<48, 48>>}}

RECURSIVE SubsetsUpTo(_, _)
\* the subsets of S with at most k elements
SubsetsUpTo(S, k) ==
    IF k = 0 THEN {{}}
    ELSE LET smaller == SubsetsUpTo(S, k - 1)
         IN  smaller \cup {T \cup {x} : T \in smaller, x \in S}

Directories ==
    {F \cup D :
        F \in SubsetsUpTo({[name |-> n, kind |-> "file", id |-> n] : n \in FileNames},
                          MaxFiles),
        D \in SubsetsUpTo({[name |-> n, kind |-> "dir", id |-> n] : n \in DirNames},
                          MaxDirs)}

WellFormed(d) == \A x, y \in d : x.name = y.name => x = y

(***************************************************************************)
(* The state machine.                                                      *)
(***************************************************************************)
Init ==
    /\ fs \in {d \in Directories : WellFormed(d)}
    /\ fs0 = fs
    /\ pc = "start"
    /\ run = 0
    /\ plan = <<>>
    /\ maxDigits = 0
    /\ checked = NotCalled
    /\ result = NotCalled
    /\ next = 0
    /\ log = <<>>
    /\ confirmed = "unasked"
    /\ stdin = <<>>
    /\ external = {}
    /\ arg = <<>>
    /\ ret = NoCall

\* The assistant (or the panic) NFLZAssistant::new ends with.
Built(b) ==
    /\ plan' = b.files
    /\ maxDigits' = b.max_digits
    /\ pc' = IF b.panic = "" THEN "built" ELSE "panicked"
    /\ result' = IF b.panic = "" THEN NotCalled ELSE Outcome("Panic", <<>>, {b.panic})

\* NFLZAssistant::new(working_dir): on a fresh directory, or again after a
\* rename_all that succeeded.
New ==
    /\ \/ pc = "start"
       \/ pc = "done" /\ run < MaxRuns
    /\ \E paths \in read_directory_flat(fs) :
          \E overflow_checks \in BOOLEAN : Built(BuildPlan(paths, overflow_checks))
    /\ run' = run + 1
    /\ fs0' = fs
    /\ checked' = NotCalled
    /\ next' = 0
    /\ log' = <<>>
    /\ external' = {}
    /\ UNCHANGED fs
    /\ UNCHANGED <<confirmed, stdin, arg, ret>>

\* assistant.check_can_rename_all()
CheckCanRenameAll ==
    /\ pc = "built"
    /\ checked = NotCalled
    /\ checked' = check_can_rename_all(plan, fs)
    /\ UNCHANGED <<fs, pc, run, plan, maxDigits, result, next, log, fs0>>
    /\ UNCHANGED <<confirmed, stdin, external, arg, ret>>

\* rename_all without the call of check_can_rename_all
RenameAllCheck_Skipped ==
    /\ pc = "built"
    /\ pc' = "renaming"
    /\ next' = 1
    /\ UNCHANGED <<fs, run, plan, maxDigits, checked, result, log, fs0>>
    /\ UNCHANGED <<confirmed, stdin, external, arg, ret>>

\* assistant.rename_all(): self.check_can_rename_all()?
RenameAllCheck ==
    /\ pc = "built"
    /\ LET r == check_can_rename_all(plan, fs)
       IN  IF r.kind = "Ok"
           THEN /\ pc' = "renaming"
                /\ next' = 1
                /\ result' = result
           ELSE /\ pc' = "failed"
                /\ next' = next
                /\ result' = r
    /\ UNCHANGED <<fs, run, plan, maxDigits, checked, log, fs0>>
    /\ UNCHANGED <<confirmed, stdin, external, arg, ret>>

\* one iteration of the loop of rename_all: std::fs::rename succeeds
RenameNext ==
    /\ pc = "renaming"
    /\ next <= Len(files_to_rename(plan))
    /\ LET file == files_to_rename(plan)[next]
           old == file.file_info.path
           new == path_with_new_filename(file).v
       IN  /\ CanRename(fs, old, new)
           /\ fs' = FsRename(fs, old, new)
           /\ log' = Append(log, [old |-> old, new |-> new,
                                  existed |-> Exists(fs, new)])
    /\ next' = next + 1
    /\ UNCHANGED <<pc, run, plan, maxDigits, checked, result, fs0>>
    /\ UNCHANGED <<confirmed, stdin, external, arg, ret>>

\* the loop of rename_all going on to the next file after a failed rename
\* (the error is noted, not returned with the ? operator)
RenameFails_SkipsEntry ==
    /\ pc = "renaming"
    /\ next <= Len(files_to_rename(plan))
    /\ LET file == files_to_rename(plan)[next]
       IN  result' = Outcome("RenameFailed",
                             <<file.file_info.original_filename, file.new_filename.v>>,
                             {})
    /\ next' = next + 1
    /\ UNCHANGED <<fs, pc, run, plan, maxDigits, checked, log, fs0>>
    /\ UNCHANGED <<confirmed, stdin, external, arg, ret>>

\* one iteration of the loop of rename_all: std::fs::rename returns an
\* error (old is gone, new is a directory, or any other I/O error)
RenameFails ==
    /\ pc = "renaming"
    /\ next <= Len(files_to_rename(plan))
    /\ LET file == files_to_rename(plan)[next]
       IN  result' = Outcome("RenameFailed",
                             <<file.file_info.original_filename, file.new_filename.v>>,
                             {})
    /\ pc' = "failed"
    /\ UNCHANGED <<fs, run, plan, maxDigits, checked, next, log, fs0>>
    /\ UNCHANGED <<confirmed, stdin, external, arg, ret>>

\* rename_all returning what files_to_rename returns, as its doc comment says
RenameAllReturn_OnlyRenamed ==
    /\ pc = "renaming"
    /\ next > Len(files_to_rename(plan))
    /\ pc' = "done"
    /\ result' = Outcome("Ok", files_to_rename(plan), {})
    /\ UNCHANGED <<fs, run, plan, maxDigits, checked, next, log, fs0>>
    /\ UNCHANGED <<confirmed, stdin, external, arg, ret>>

\* rename_all: Ok(self.files_with_rename_info)
RenameAllReturn ==
    /\ pc = "renaming"
    /\ next > Len(files_to_rename(plan))
    /\ pc' = "done"
    /\ result' = Outcome("Ok", plan, {})
    /\ UNCHANGED <<fs, run, plan, maxDigits, checked, next, log, fs0>>
    /\ UNCHANGED <<confirmed, stdin, external, arg, ret>>

Next ==
    \/ New
    \/ CheckCanRenameAll
    \/ RenameAllCheck
    \/ RenameNext
    \/ RenameFails
    \/ RenameAllReturn

Spec == Init /\ [][Next]_vars

\* The destinations of the renames rename_all has still to make.
PendingDestinations ==
    {path_with_new_filename(files_to_rename(plan)[k]).v :
        k \in next..Len(files_to_rename(plan))}

\* Another process creates a regular file in the directory while the loop
\* of rename_all runs: at the destination of a rename still to be made
\* ("there may be external changes to the file system during that process").
ExternalCreate ==
    /\ pc = "renaming"
    /\ external = {}
    /\ \E name \in PendingDestinations :
          /\ ~Exists(fs, name)
          /\ fs' = fs \cup {[name |-> name, kind |-> "file", id |-> <<0>>]}
          /\ external' = {name}
    /\ UNCHANGED <<pc, run, plan, maxDigits, checked, result, next, log, fs0>>
    /\ UNCHANGED <<confirmed, stdin, arg, ret>>

RaceNext ==
    \/ Next
    \/ ExternalCreate

\* The library used while another process writes to the directory.
RaceSpec == Init /\ [][RaceNext]_vars

(***************************************************************************)
(* Single calls of the functions of the library.                           *)
(***************************************************************************)
\* "a", "(", ")", "0" and "1"
Alphabet == {97, 40, 41, 48, 49}

\* the non-empty strings over the alphabet with at most n characters
StringsUpTo(n) == UNION {[1..k -> Alphabet] : k \in 1..n}

\* "img (": the prefix of the names of the tests of file_info.rs
PrefixImg == <<105, 109, 103, 32, 40>>

\* the names of the tests of file_info.rs: "img (100)", "img (1) (100)",
\* "img (1) 100)", "img (100).jpg" and "(100) foobar.png"
TestNames ==
    {PrefixImg \o <<49, 48, 48, 41>>,
     PrefixImg \o <<49, 41, 32, 40, 49, 48, 48, 41>>,
     PrefixImg \o <<49, 41, 32, 49, 48, 48, 41>>,
     PrefixImg \o <<49, 48, 48, 41, 46, 106, 112, 103>>,
     <<40, 49, 48, 48, 41, 32, 102, 111, 111, 98, 97, 114, 46, 112, 110, 103>>}

\* the numerals of 10^k - 1, 10^k, 10^k + 1 and of the numbers around
\* 10^k + F64Slack(k), for the k digits a u64 can have
NumeralsNearPowersOfTen ==
    UNION {{[i \in 1..k |-> 57], Pow10Plus(k, 0), Pow10Plus(k, 1),
            Pow10Plus(k, F64Slack(k)), Pow10Plus(k, F64Slack(k) + 1),
            Pow10Plus(k, F64Slack(k) + 2)} : k \in 1..19}

\* 18446744073709551614, 18446744073709551616 (u64::MAX - 1 and u64::MAX + 1)
NumeralsNearU64Max ==
    {SubSeq(U64MaxDigits, 1, 19) \o <<52>>, U64MaxDigits,
     SubSeq(U64MaxDigits, 1, 19) \o <<54>>}

Numerals ==
    {to_string(n) : n \in 0..MaxSmallNumber}
        \cup NumeralsNearPowersOfTen \cup NumeralsNearU64Max

\* the arguments of the single calls: file names and numerals; among the
\* file names "a(18446744073709551616)jp", whose number is u64::MAX + 1
FnInputs ==
    StringsUpTo(MaxNameLen) \cup FileNames \cup TestNames \cup Numerals
        \cup {PrefixLower \o SubSeq(U64MaxDigits, 1, 19) \o <<54>> \o SuffixJp}

\* s is the decimal numeral of a u64: digits only, no leading zero, at most
\* u64::MAX
IsU64Numeral(s) ==
    /\ s # <<>>
    /\ \A i \in 1..Len(s) : IsDigit(s[i])
    /\ Len(s) > 1 => s[1] # 48
    /\ ~NumeralExceedsU64(s)

FnInit ==
    /\ arg \in FnInputs
    /\ ret = NoCall
    /\ fs = {}
    /\ fs0 = {}
    /\ pc = "start"
    /\ run = 0
    /\ plan = <<>>
    /\ maxDigits = 0
    /\ checked = NotCalled
    /\ result = NotCalled
    /\ next = 0
    /\ log = <<>>
    /\ confirmed = "unasked"
    /\ stdin = <<>>
    /\ external = {}

\* FileInfo::new(arg)
FileInfoNew ==
    /\ ret = NoCall
    /\ ret' = [fn |-> "FileInfo::new", v |-> FileInfo_new(arg)]
    /\ UNCHANGED <<fs, pc, run, plan, maxDigits, checked, result, next, log, fs0>>
    /\ UNCHANGED <<confirmed, stdin, external, arg>>

\* count_digits_without_leading_zeroes(arg), arg the numeral of a u64
CountDigits ==
    /\ ret = NoCall
    /\ IsU64Numeral(arg)
    /\ \E r \in count_digits_u64(arg) :
          ret' = [fn |-> "count_digits_without_leading_zeroes", v |-> r]
    /\ UNCHANGED <<fs, pc, run, plan, maxDigits, checked, result, next, log, fs0>>
    /\ UNCHANGED <<confirmed, stdin, external, arg>>

\* a < b for the numerals of two numbers
NumeralLess(a, b) == Len(a) < Len(b) \/ (Len(a) = Len(b) /\ StrLess(a, b))

\* .max() of two numbers given as numerals
MaxNumeral(a, b) == IF NumeralLess(a, b) THEN b ELSE a

\* count_digits_without_leading_zeroes(number) in the build in which the
\* call for the largest number, max, had the outcome m
DigitsInBuildOf(number, max, m) ==
    IF number = max THEN m ELSE CHOOSE r \in count_digits_u64(number) : TRUE

\* FileInfoWithRenameAdvice::new up to digits_to_add_count, on the whole
\* range of u64: max_digits and digits are outcomes of count_digits_u64.
\* The panic of find_max_digits comes first, then the assertion on
\* max_digits, then the panic of the count of the file's own digits.
DigitsToAdd(max_digits, digits, overflow_checks) ==
    IF max_digits.panic # "" THEN [panic |-> max_digits.panic, value |-> 0]
    ELSE IF max_digits.value = 0
    THEN [panic |-> "max digits must be bigger than zero", value |-> 0]
    ELSE IF digits.panic # "" THEN [panic |-> digits.panic, value |-> 0]
    ELSE IF digits.value > max_digits.value
    THEN [panic |-> SubtractionUnderflow(overflow_checks), value |-> 0]
    ELSE [panic |-> "", value |-> max_digits.value - digits.value]

\* find_max_digits and the digits_to_add_count of each file, for two parsed
\* files with the numbers a and b; m is the outcome of find_max_digits
WidthsOfTwo(a, b, m, overflow_checks) ==
    [numbers |-> <<a, b>>,
     max_digits |-> m,
     digits_to_add |->
        <<DigitsToAdd(m, DigitsInBuildOf(a, MaxNumeral(a, b), m), overflow_checks),
          DigitsToAdd(m, DigitsInBuildOf(b, MaxNumeral(a, b), m), overflow_checks)>>]

\* m is an outcome of count_digits_without_leading_zeroes(number) in the
\* build: number + 1 panics for u64::MAX exactly with overflow checks
OutcomeOfBuild(number, m, overflow_checks) ==
    number = U64MaxDigits => (m.panic # "") = overflow_checks

\* the number of the second file: 7, 10^15 - 1 or 10^15
OtherNumerals == {<<55>>, [i \in 1..15 |-> 57], Pow10Plus(15, 0)}

\* NFLZAssistant::new on two parsed files whose numbers are arg and another
\* one: find_max_digits(&files), then max_digits - digits for each file
FindMaxDigits ==
    /\ ret = NoCall
    /\ IsU64Numeral(arg)
    /\ \E other \in OtherNumerals :
          \E m \in count_digits_u64(MaxNumeral(arg, other)) :
              \E overflow_checks \in BOOLEAN :
                  /\ OutcomeOfBuild(MaxNumeral(arg, other), m, overflow_checks)
                  /\ ret' = [fn |-> "find_max_digits",
                             v |-> WidthsOfTwo(arg, other, m, overflow_checks)]
    /\ UNCHANGED <<fs, pc, run, plan, maxDigits, checked, result, next, log, fs0>>
    /\ UNCHANGED <<confirmed, stdin, external, arg>>

FnNext ==
    \/ FileInfoNew
    \/ CountDigits
    \/ FindMaxDigits

FnSpec == FnInit /\ [][FnNext]_vars

(***************************************************************************)
(* main.rs: the command line program.                                      *)
(***************************************************************************)
\* main up to the prompt of ask_for_confirmation, once NFLZAssistant::new
\* has ended with b: the panic ends the process, "Found no files to
\* rename. Exit." ends it too, else the plan is printed and the prompt
\* waits for the answer.
MainBuilt(b) ==
    /\ plan' = b.files
    /\ maxDigits' = b.max_digits
    /\ pc' = IF b.panic # "" THEN "panicked"
             ELSE IF files_to_rename(b.files) = <<>> THEN "exited"
             ELSE "asking"
    /\ result' = IF b.panic = "" THEN NotCalled ELSE Outcome("Panic", <<>>, {b.panic})

\* main: NFLZAssistant::new(dir), the two lists are printed
MainStart ==
    /\ pc = "start"
    /\ \E paths \in read_directory_flat(fs) :
          \E overflow_checks \in BOOLEAN :
              MainBuilt(BuildPlan(paths, overflow_checks))
    /\ run' = run + 1
    /\ fs0' = fs
    /\ UNCHANGED <<fs, checked, next, log, confirmed, stdin, external, arg, ret>>

\* char::is_whitespace on a byte: tab, line feed, vertical tab, form feed,
\* carriage return, space
IsWhitespace(c) == c \in {9, 10, 11, 12, 13, 32}

RECURSIVE trim_start(_)
trim_start(s) ==
    IF s # <<>> /\ IsWhitespace(s[1]) THEN trim_start(Tail(s)) ELSE s

RECURSIVE trim_end(_)
trim_end(s) ==
    IF s # <<>> /\ IsWhitespace(s[Len(s)])
    THEN trim_end(SubSeq(s, 1, Len(s) - 1))
    ELSE s

\* str::trim
trim(s) == trim_end(trim_start(s))

\* what stdin().read_line returns: Ok with the line read (its line ending
\* included; empty at the end of the input), or an error
ReadLine(s) == [ok |-> TRUE, line |-> s]
ReadError == [ok |-> FALSE, line |-> <<>>]

\* the lines a user may type: "y\n", " Y \r\n", "n\n", "yes\n" and the end
\* of the input
StdinLines ==
    {<<121, 10>>, <<32, 89, 32, 13, 10>>, <<110, 10>>, <<121, 101, 115, 10>>,
     <<>>}

\* ask_for_confirmation taking every answer that begins with "y" for a yes
ask_for_confirmation_StartsWithY(input) ==
    /\ input.ok
    /\ to_lowercase(trim(input.line)) # <<>>
    /\ to_lowercase(trim(input.line))[1] = 121

\* ask_for_confirmation: input.trim().to_lowercase() == "y"; a read error
\* is a no
ask_for_confirmation(input) ==
    /\ input.ok
    /\ to_lowercase(trim(input.line)) = <<121>>

\* main: let res = ask_for_confirmation(); "y" goes on to rename_all,
\* anything else (or a read error) prints "Aborted" and exits
AskForConfirmation ==
    /\ pc = "asking"
    /\ \E input \in {ReadLine(l) : l \in StdinLines} \cup {ReadError} :
          /\ stdin' = Append(stdin, input)
          /\ confirmed' = IF ask_for_confirmation(input) THEN "yes" ELSE "no"
          /\ pc' = IF ask_for_confirmation(input) THEN "built" ELSE "exited"
    /\ UNCHANGED <<fs, run, plan, maxDigits, checked, result, next, log, fs0>>
    /\ UNCHANGED <<external, arg, ret>>

\* main: the match on what rename_all returned; an error other than
\* AmbiguousPrefixes, AmbiguousSuffixes and RenameFailed is answered with
\* panic!("Unexpected error!")
MainReport ==
    /\ pc \in {"done", "failed"}
    /\ pc' = IF result.kind \in {"Ok", "AmbiguousPrefixes", "AmbiguousSuffixes",
                                  "RenameFailed"}
             THEN "exited"
             ELSE "panicked"
    /\ UNCHANGED <<fs, run, plan, maxDigits, checked, result, next, log, fs0>>
    /\ UNCHANGED <<confirmed, stdin, external, arg, ret>>

CliNext ==
    \/ MainStart
    \/ AskForConfirmation
    \/ RenameAllCheck
    \/ RenameNext
    \/ RenameFails
    \/ RenameAllReturn
    \/ MainReport

CliSpec == Init /\ [][CliNext]_vars

(***************************************************************************)
(* Notions the properties are stated with.                                 *)
(***************************************************************************)
\* an assistant exists: NFLZAssistant::new has returned one
HasPlan == pc \in {"built", "renaming", "done", "failed"}

\* the parsable files of a directory
ParsedFiles(d) ==
    {f \in {FileInfo_new(x.name) : x \in {y \in d : y.kind = "file"}} : f.err = ""}

\* the largest number among parsed files (0 if there is none)
LargestNumber(files) ==
    IF files = {} THEN 0
    ELSE CHOOSE m \in {f.number_group_value : f \in files} :
            \A f \in files : f.number_group_value <= m

\* digit_count as the specification defines it: the number of decimal digits
\* of n, and 0 for n = 0
DigitCount(n) == IF n = 0 THEN 0 ELSE Len(to_string(n))

\* max_digit_width of the directory the current assistant was built on
MaxDigitWidth == DigitCount(LargestNumber(ParsedFiles(fs0)))

\* the name a file of the plan has once rename_all has succeeded
FinalName(e) ==
    IF e.new_filename.some THEN e.new_filename.v ELSE e.file_info.original_filename

\* the number of digits inside the number group of a name
GroupWidth(name) ==
    get_number_group_indices_from_actual_filename(name).to
        - get_number_group_indices_from_actual_filename(name).from

\* the name the specification's formula gives a parsed file
PaddedName(f) ==
    filename_prefix(f)
        \o Zeroes(MaxDigitWidth - DigitCount(f.number_group_value))
        \o to_string(f.number_group_value) \o filename_suffix(f)

\* the entries whose destination existed when the assistant was built
ConflictingEntries ==
    {i \in 1..Len(plan) :
        /\ plan[i].new_filename.some
        /\ \E x \in fs0 : x.name = plan[i].new_filename.v}

\* the text before the digits and the text after them, read off the name
PrefixOf(name) ==
    CHOOSE p \in {SubSeq(name, 1, k) : k \in 1..Len(name)} :
        /\ p[Len(p)] = 40
        /\ \E m \in (Len(p) + 1)..(Len(name) - 1) :
              /\ \A k \in (Len(p) + 1)..m : IsDigit(name[k])
              /\ name[m + 1] = 41

SuffixOf(name) ==
    CHOOSE q \in {SubSeq(name, k, Len(name)) : k \in 1..Len(name)} :
        /\ q[1] = 41
        /\ \E m \in 2..(Len(name) - Len(q)) :
              /\ \A k \in m..(Len(name) - Len(q)) : IsDigit(name[k])
              /\ name[m - 1] = 40

PlanPrefixes == {PrefixOf(plan[i].file_info.original_filename) : i \in 1..Len(plan)}

PlanSuffixes == {SuffixOf(plan[i].file_info.original_filename) : i \in 1..Len(plan)}

ValidationErrors == {"ConflictingFiles", "AmbiguousPrefixes", "AmbiguousSuffixes"}

(***************************************************************************)
(* C1 - C10                                                                *)
(***************************************************************************)
\* C1 (idempotence): an assistant built on the directory that a successful
\* rename_all left behind is built without a panic and has nothing to rename.
C1_SecondPlanIsEmpty ==
    run >= 2 => pc # "panicked" /\ files_to_rename(plan) = <<>>

\* C2 (no data loss): no rename of rename_all targets an existing path, the
\* directory holds as many entries after rename_all as before, and no two
\* entries of a validated plan have the same new_filename.
C2_NoFileOverwritten ==
    /\ \A k \in 1..Len(log) : ~log[k].existed
    /\ pc = "done" => Cardinality(fs) = Cardinality(fs0)
    /\ pc \in {"renaming", "done"} =>
          \A i, j \in 1..Len(plan) :
              (i # j /\ plan[i].new_filename.some /\ plan[j].new_filename.some)
                  => plan[i].new_filename.v # plan[j].new_filename.v

\* C3: after a successful rename_all the final names sort, as strings, in
\* the order of their numbers.
C3_LexicographicIsNumeric ==
    pc = "done" =>
        \A i, j \in 1..Len(plan) :
            plan[i].file_info.number_group_value < plan[j].file_info.number_group_value
                => StrLess(FinalName(plan[i]), FinalName(plan[j]))

\* C4: after a successful rename_all the number group of every file of the
\* plan has max_digit_width digits.
C4_AllGroupsHaveMaxWidth ==
    pc = "done" =>
        \A i \in 1..Len(plan) : GroupWidth(FinalName(plan[i])) = MaxDigitWidth

\* C5: every new_filename is prefix + z zeroes + the decimal number +
\* suffix, with z = max_digit_width - digit_count(number); with the numbers
\* 1, 9, 10 and 734 the plan is (001), (009), (010) and no rename for (734).
ParisPlan(overflow_checks) ==
    BuildPlan(<<PrefixLower \o <<55, 51, 52>> \o SuffixJp,
                PrefixLower \o <<49, 48>> \o SuffixJp,
                PrefixLower \o <<57>> \o SuffixJp,
                PrefixLower \o <<49>> \o SuffixJp>>, overflow_checks).files

ParisPlanIsAsDocumented ==
    \A overflow_checks \in BOOLEAN :
        [i \in 1..Len(ParisPlan(overflow_checks)) |->
            ParisPlan(overflow_checks)[i].new_filename]
            = <<Some(PrefixLower \o <<48, 48, 49>> \o SuffixJp),
                Some(PrefixLower \o <<48, 48, 57>> \o SuffixJp),
                Some(PrefixLower \o <<48, 49, 48>> \o SuffixJp),
                None>>

C5_NewFilenameIsPadded ==
    /\ ParisPlanIsAsDocumented
    /\ HasPlan =>
          \A i \in 1..Len(plan) :
              plan[i].new_filename.some
                  => plan[i].new_filename.v = PaddedName(plan[i].file_info)

\* a plan that pads one number with one zero and another with two
C5_Witness ==
    /\ pc = "built"
    /\ \E i, j \in 1..Len(plan) :
          /\ plan[i].new_filename.some
          /\ plan[j].new_filename.some
          /\ Len(plan[i].new_filename.v) = Len(plan[i].file_info.original_filename) + 1
          /\ Len(plan[j].new_filename.v) = Len(plan[j].file_info.original_filename) + 2

\* C6: a parsed file whose padded name equals its name gets an entry with
\* new_filename = None.
C6_AlreadyPaddedNeedsNoRename ==
    run >= 1 =>
        \A f \in ParsedFiles(fs0) :
            PaddedName(f) = f.original_filename
                => \E i \in 1..Len(plan) :
                      plan[i].file_info = f /\ ~plan[i].new_filename.some

\* C7: check_can_rename_all fails with ConflictingFiles exactly if the
\* destination of some entry exists, and the error carries the destination
\* of every such entry.
C7_ConflictingFilesCarriesTargets ==
    checked.kind # "NotCalled" =>
        /\ checked.kind = "ConflictingFiles" <=> ConflictingEntries # {}
        /\ checked.kind = "ConflictingFiles" =>
              {checked.paths[k] : k \in 1..Len(checked.paths)}
                  = {plan[i].new_filename.v : i \in ConflictingEntries}

\* C8: without a destination collision, more than one prefix makes the
\* validation fail with AmbiguousPrefixes carrying all prefixes, and
\* rename_all does not get past its validation.
C8_AmbiguousPrefixes ==
    (HasPlan /\ ConflictingEntries = {} /\ Cardinality(PlanPrefixes) > 1) =>
        /\ checked.kind # "NotCalled"
              => checked = Outcome("AmbiguousPrefixes", <<>>, PlanPrefixes)
        /\ pc \notin {"renaming", "done"}
        /\ pc = "failed" => result = Outcome("AmbiguousPrefixes", <<>>, PlanPrefixes)

\* the prefixes "a(" and "A(", which differ only in case, were rejected
C8_Witness ==
    /\ checked.kind = "AmbiguousPrefixes"
    /\ Cardinality(checked.set) = 2
    /\ Cardinality({to_lowercase(p) : p \in checked.set}) = 1
    /\ \E i \in 1..Len(plan) : ~plan[i].new_filename.some

\* exactly two suffixes, equal when case is ignored
TwoSuffixesDifferInCaseOnly ==
    /\ Cardinality(PlanSuffixes) = 2
    /\ Cardinality({to_lowercase(q) : q \in PlanSuffixes}) = 1

\* C9: with one prefix and no destination collision the validation fails
\* with AmbiguousSuffixes (carrying the suffixes) exactly if there is more
\* than one suffix, unless there are exactly two that differ only in case.
C9_AmbiguousSuffixes ==
    (HasPlan /\ checked.kind # "NotCalled"
        /\ ConflictingEntries = {} /\ Cardinality(PlanPrefixes) <= 1) =>
        IF Cardinality(PlanSuffixes) > 1 /\ ~TwoSuffixesDifferInCaseOnly
        THEN checked = Outcome("AmbiguousSuffixes", <<>>, PlanSuffixes)
        ELSE checked = Ok

\* three suffixes that differ only in case were rejected
C9_Witness ==
    /\ checked.kind = "AmbiguousSuffixes"
    /\ Cardinality(checked.set) = 3
    /\ Cardinality({to_lowercase(q) : q \in checked.set}) = 1

\* the plan passes both checks of check_can_rename_all
PlanIsValid ==
    /\ ConflictingEntries = {}
    /\ Cardinality(PlanPrefixes) <= 1
    /\ Cardinality(PlanSuffixes) <= 1 \/ TwoSuffixesDifferInCaseOnly

\* C10: rename_all renames only after the validation has succeeded; if the
\* validation fails, rename_all returns its error and nothing was renamed.
C10_ValidationBeforeAnyRename ==
    /\ [][(Len(log') > Len(log) \/ fs' # fs) => (pc = "renaming" /\ PlanIsValid)]_vars
    /\ [][(pc = "built" /\ pc' \in {"renaming", "failed"}) =>
            IF PlanIsValid
            THEN pc' = "renaming" /\ fs' = fs /\ log' = <<>>
            ELSE /\ pc' = "failed"
                 /\ result'.kind \in ValidationErrors
                 /\ fs' = fs0
                 /\ log' = <<>>]_vars
    /\ [](pc = "failed" /\ result.kind \in ValidationErrors => fs = fs0 /\ log = <<>>)

\* rename_all returned a validation error for a plan that has renames
C10_Witness ==
    /\ pc = "failed"
    /\ result.kind \in ValidationErrors
    /\ files_to_rename(plan) # <<>>
    /\ fs = fs0

(***************************************************************************)
(* C11 - C20                                                               *)
(***************************************************************************)
RECURSIVE Replay(_, _)
\* the directory d after the renames of the log l, in order
Replay(d, l) ==
    IF l = <<>> THEN d
    ELSE Replay(FsRename(d, Head(l).old, Head(l).new), Tail(l))

\* C11: when the rename of the k-th entry to rename fails, rename_all ends
\* at once with RenameFailed carrying that entry's old and new filename; no
\* later entry is attempted and the k - 1 renames already made stay in the
\* directory.
C11_RenameFailedStopsAndKeeps ==
    /\ [][(result'.kind = "RenameFailed" /\ result.kind # "RenameFailed") =>
            /\ pc = "renaming"
            /\ pc' = "failed"
            /\ next <= Len(files_to_rename(plan))
            /\ result'.paths
                  = <<files_to_rename(plan)[next].file_info.original_filename,
                      files_to_rename(plan)[next].new_filename.v>>
            /\ fs' = fs
            /\ log' = log]_vars
    /\ [][pc # "failed"]_vars
    /\ [](pc = "failed" /\ result.kind = "RenameFailed" =>
            /\ Len(log) = next - 1
            /\ \A i \in 1..Len(log) :
                  /\ log[i].old = files_to_rename(plan)[i].file_info.path
                  /\ log[i].new = files_to_rename(plan)[i].new_filename.v
            /\ fs = Replay(fs0, log))

\* the second rename failed and the first one is still in the directory
C11_Witness ==
    /\ pc = "failed"
    /\ result.kind = "RenameFailed"
    /\ next = 2
    /\ Len(log) = 1
    /\ fs # fs0
    /\ Exists(fs, log[1].new)
    /\ ~Exists(fs, log[1].old)

\* the files of the test directory of tests::test_nflz, with "a(" for
\* "paris (" and ")jp" for ").jpg": 1 .. 10, 734 and a name with two groups
ParisTestDirectory ==
    [n \in 1..10 |-> PrefixLower \o to_string(n) \o SuffixJp]
        \o <<PrefixLower \o to_string(734) \o SuffixJp,
              PrefixLower \o to_string(100) \o <<41, 40>> \o to_string(19231)
                  \o SuffixJp>>

\* the plan of the test, which cargo test runs with overflow checks
ParisTestPlan == BuildPlan(ParisTestDirectory, TRUE)

\* C12: a rename_all that succeeds returns the whole plan, the entries
\* that needed no rename included: one entry per parsable file of the
\* directory (11 for the test directory).
C12_RenameAllReturnsWholePlan ==
    /\ ParisTestPlan.panic = ""
    /\ Len(ParisTestPlan.files) = 11
    /\ pc = "done" =>
          /\ result.kind = "Ok"
          /\ result.paths = plan
          /\ Len(result.paths) = Cardinality(ParsedFiles(fs0))
          /\ \A f \in ParsedFiles(fs0) :
                \E i \in 1..Len(result.paths) : result.paths[i].file_info = f

\* rename_all succeeded on a directory with a file to rename, a file that
\* keeps its name and a file that was skipped
C12_Witness ==
    /\ pc = "done"
    /\ log # <<>>
    /\ \E i \in 1..Len(result.paths) : ~result.paths[i].new_filename.some
    /\ Len(result.paths) < Cardinality({x \in fs0 : x.kind = "file"})

\* C13: a rename_all that succeeds returns the list files_to_rename
\* returns on the same assistant.
C13_ReturnsFilesToRename ==
    pc = "done" => result.paths = files_to_rename(plan)

\* the positions of a name at which a group "(" digits ")" starts
GroupStarts(name) ==
    {i \in 1..Len(name) :
        /\ name[i] = 40
        /\ \E j \in (i + 2)..Len(name) :
              /\ name[j] = 41
              /\ \A k \in (i + 1)..(j - 1) : IsDigit(name[k])}

GroupCount(name) == Cardinality(GroupStarts(name))

\* the digits of the first group of a name that has one
GroupDigits(name) ==
    LET i == CHOOSE g \in GroupStarts(name) : \A h \in GroupStarts(name) : g <= h
        j == CHOOSE c \in (i + 2)..Len(name) :
                 name[c] = 41 /\ \A k \in (i + 1)..(c - 1) : IsDigit(name[k])
    IN  SubSeq(name, i + 1, j - 1)

\* FileInfo::new was called and has returned
Parsed == ret.fn = "FileInfo::new"

\* C14: parsing succeeds only with exactly one group "(" digits ")"; a
\* name without a group is rejected with an error kind that no name with
\* two or more groups is rejected with.
C14_TwoRejectionKinds ==
    Parsed =>
        /\ ret.v.err = "" => GroupCount(arg) = 1
        /\ GroupCount(arg) # 1 => ret.v.err # ""
        /\ GroupCount(arg) = 0 =>
              \A other \in FileNames \cup TestNames :
                  GroupCount(other) > 1 => FileInfo_new(other).err # ret.v.err

\* the number of the group of a name with one group fits a u64
GroupNumberFits(name) == ~NumeralExceedsU64(StripZeroes(GroupDigits(name)))

\* C15: a name with exactly one group whose number fits a u64 is parsed,
\* and prefix + "(" + digits + ")" + suffix is the name.
C15_PrefixParenDigitsParenSuffix ==
    (Parsed /\ GroupCount(arg) = 1 /\ GroupNumberFits(arg)) =>
        /\ ret.v.err = ""
        /\ filename_prefix(ret.v) \o <<40>> \o ret.v.number_group_str \o <<41>>
              \o filename_suffix(ret.v) = arg

\* C15 as the code has it: a name with exactly one group whose number fits
\* a u64 is parsed, the digits are those of the group, and prefix + digits
\* + suffix is the name (the accessors keep the parentheses).
C15_PrefixDigitsSuffix ==
    (Parsed /\ GroupCount(arg) = 1 /\ GroupNumberFits(arg)) =>
        /\ ret.v.err = ""
        /\ ret.v.number_group_str = GroupDigits(arg)
        /\ filename_prefix(ret.v) \o ret.v.number_group_str \o filename_suffix(ret.v)
              = arg

\* a name was parsed that has text before and after its group and a
\* leading zero in it
C15_Witness ==
    /\ Parsed
    /\ ret.v.err = ""
    /\ Len(filename_prefix(ret.v)) > 1
    /\ Len(filename_suffix(ret.v)) > 1
    /\ Len(ret.v.number_group_str) > 1
    /\ ret.v.number_group_str[1] = 48

\* "img (100).jpg" and "(100) foobar.png"
ImgJpg == PrefixImg \o <<49, 48, 48, 41, 46, 106, 112, 103>>

FoobarPng ==
    <<40, 49, 48, 48, 41, 32, 102, 111, 111, 98, 97, 114, 46, 112, 110, 103>>

\* C16: for a parsed name the span is that of the digits without the
\* parentheses, the prefix is the name up to the span and ends with "(",
\* the suffix is the name from the end of the span and starts with ")", and
\* prefix + digits + suffix is the name.
C16_SpanPrefixSuffix ==
    (Parsed /\ ret.v.err = "") =>
        LET from == ret.v.number_group_indices[1]
            to == ret.v.number_group_indices[2]
        IN  /\ 1 <= from
            /\ from < to
            /\ to < Len(arg)
            /\ \A k \in (from + 1)..to : IsDigit(arg[k])
            /\ arg[from] = 40
            /\ arg[to + 1] = 41
            /\ ret.v.number_group_str = SubSeq(arg, from + 1, to)
            /\ filename_prefix(ret.v) = SubSeq(arg, 1, from)
            /\ filename_suffix(ret.v) = SubSeq(arg, to + 1, Len(arg))
            /\ filename_prefix(ret.v)[Len(filename_prefix(ret.v))] = 40
            /\ filename_suffix(ret.v)[1] = 41
            /\ filename_prefix(ret.v) \o SubSeq(arg, from + 1, to)
                  \o filename_suffix(ret.v) = arg
            /\ arg = ImgJpg =>
                  /\ filename_prefix(ret.v) = PrefixImg
                  /\ filename_suffix(ret.v) = <<41, 46, 106, 112, 103>>
            /\ arg = FoobarPng => filename_prefix(ret.v) = <<40>>

\* "(100) foobar.png" was parsed
C16_Witness ==
    /\ Parsed
    /\ arg = FoobarPng
    /\ ret.v.err = ""
    /\ ret.v.number_group_indices = <<1, 4>>

\* a name FileInfo::new should accept: one group, its number fits a u64
Parsable(name) == GroupCount(name) = 1 /\ GroupNumberFits(name)

\* the regular files of a directory with such a name
ParsableEntries(d) == {x \in d : x.kind = "file" /\ Parsable(x.name)}

\* the largest number in the groups of a set of entries (0 if it is empty)
LargestGroupNumber(entries) ==
    LET numbers == {DecimalValue(GroupDigits(x.name), 0) : x \in entries}
    IN  IF numbers = {} THEN 0
        ELSE CHOOSE m \in numbers : \A n \in numbers : n <= m

\* C17: a file whose name fails parsing (no group, several groups, a
\* number above u64::MAX) is left out of the plan, does not make
\* NFLZAssistant::new fail and does not count for max_digits: new ends as
\* it does on the directory without these files.  The test directory,
\* with its name of two groups, has the width 3.
C17_UnparsableFilesAreSkipped ==
    /\ ParisTestPlan.max_digits = 3
    /\ \A i \in 1..Len(ParisTestPlan.files) :
          GroupCount(ParisTestPlan.files[i].file_info.original_filename) = 1
    /\ run >= 1 =>
          /\ maxDigits = DigitCount(LargestGroupNumber(ParsableEntries(fs0)))
          /\ \E paths \in read_directory_flat(ParsableEntries(fs0)) :
                \A overflow_checks \in BOOLEAN :
                    /\ (pc = "panicked")
                          = (BuildPlan(paths, overflow_checks).panic # "")
                    /\ plan = BuildPlan(paths, overflow_checks).files
    /\ HasPlan =>
          /\ {plan[i].file_info.original_filename : i \in 1..Len(plan)}
                = {x.name : x \in ParsableEntries(fs0)}
          /\ Len(plan) = Cardinality(ParsableEntries(fs0))

\* an assistant was built on a directory with a name of two groups, a name
\* with a number above u64::MAX and one name that parses
C17_Witness ==
    /\ pc = "built"
    /\ Len(plan) = 1
    /\ \E x \in fs0 : x.kind = "file" /\ GroupCount(x.name) = 2
    /\ \E x \in fs0 :
          x.kind = "file" /\ GroupCount(x.name) = 1 /\ ~GroupNumberFits(x.name)

\* C18: digit_count(0) = 0; for every n from 1 to u64::MAX digit_count(n)
\* is the k with 10^(k-1) <= n < 10^k; n + 1 does not overflow.
C18_DigitCountIsExact ==
    ret.fn = "count_digits_without_leading_zeroes" =>
        /\ ret.v.panic = ""
        /\ IF arg = <<48>> THEN ret.v.value = 0
           ELSE /\ ret.v.value >= 1
                /\ ~NumeralLess(arg, Pow10Plus(ret.v.value - 1, 0))
                /\ NumeralLess(arg, Pow10Plus(ret.v.value, 0))

\* the position of an entry in the plan
PlanPosition(e) == CHOOSE i \in 1..Len(plan) : plan[i] = e

\* the entries of a list are entries of the plan, in the plan's order and
\* in ascending order of their numbers
KeepsPlanOrder(list) ==
    /\ \A j \in 1..Len(list) : \E i \in 1..Len(plan) : plan[i] = list[j]
    /\ \A j, k \in 1..Len(list) :
          j < k =>
              /\ PlanPosition(list[j]) < PlanPosition(list[k])
              /\ list[j].file_info.number_group_value
                    <= list[k].file_info.number_group_value

\* C19: files_to_rename and files_without_rename partition the plan; an
\* entry is in files_to_rename iff its new_filename is Some; needs_rename
\* is the negation of is_already_properly_named; both lists keep the
\* plan's ascending order; their lengths add up to the number of parsable
\* files.
C19_ListsPartitionPlan ==
    HasPlan =>
        /\ \A i \in 1..Len(plan) :
              /\ (\E j \in 1..Len(files_to_rename(plan)) :
                        files_to_rename(plan)[j] = plan[i])
                    = plan[i].new_filename.some
              /\ (\E j \in 1..Len(files_without_rename(plan)) :
                        files_without_rename(plan)[j] = plan[i])
                    = ~plan[i].new_filename.some
              /\ needs_rename(plan[i]) = ~is_already_properly_named(plan[i])
        /\ KeepsPlanOrder(files_to_rename(plan))
        /\ KeepsPlanOrder(files_without_rename(plan))
        /\ Len(files_to_rename(plan)) + Len(files_without_rename(plan))
              = Cardinality(ParsableEntries(fs0))

\* a plan with two entries to rename and one that keeps its name
C19_Witness ==
    /\ pc = "built"
    /\ Len(files_to_rename(plan)) = 2
    /\ Len(files_without_rename(plan)) = 1

\* C20: in the command line program the plan has passed the validation
\* when the user is asked to confirm, and a rename is made only after the
\* user has confirmed: validation, confirmation, execution.
C20_ValidationConfirmationExecution ==
    /\ (pc = "asking" \/ confirmed # "unasked") => PlanIsValid
    /\ log # <<>> => confirmed = "yes"

(***************************************************************************)
(* C21 - C30                                                               *)
(***************************************************************************)
\* the orders n renames can be applied in
Orders(n) == {q \in [1..n -> 1..n] : \A i, j \in 1..n : q[i] = q[j] => i = j}

\* the renames of a log, taken in the order q
InOrder(l, q) == [i \in 1..Len(l) |-> l[q[i]]]

\* C21: the order of the renames of a validated plan does not matter: the
\* renames rename_all has made, applied in any other order to the directory
\* the assistant was built on, leave the same content under the same names.
C21_RenameOrderIsImmaterial ==
    pc = "done" =>
        \A q \in Orders(Len(log)) : Replay(fs0, InOrder(log, q)) = fs

\* C22: in a plan NFLZAssistant::new has returned, a new_filename that is
\* Some(name) has a name other than the entry's original_filename; the
\* plan rename_all returns is that plan.
C22_NewFilenameDiffersFromOriginal ==
    /\ HasPlan =>
          \A i \in 1..Len(plan) :
              plan[i].new_filename.some =>
                  plan[i].new_filename.v # plan[i].file_info.original_filename
    /\ (pc = "done" /\ result.kind = "Ok") =>
          \A i \in 1..Len(result.paths) :
              result.paths[i].new_filename.some =>
                  result.paths[i].new_filename.v
                      # result.paths[i].file_info.original_filename

\* a returned plan with an entry to rename whose group has a leading zero
\* already
C22_Witness ==
    /\ pc = "done"
    /\ result.kind = "Ok"
    /\ \E i \in 1..Len(plan) :
          /\ plan[i].new_filename.some
          /\ Len(plan[i].file_info.number_group_str) > 1
          /\ plan[i].file_info.number_group_str[1] = 48

\* the positions of the plan whose entry has a new_filename
SomePositions == {i \in 1..Len(plan) : plan[i].new_filename.some}

\* the k-th of these positions, counted from the front of the plan
SomePosition(k) ==
    CHOOSE i \in SomePositions :
        Cardinality({j \in SomePositions : j <= i}) = k

\* C23: the plan is in non-decreasing order of number_value; rename_all
\* issues its renames in that order, one per entry whose new_filename is
\* Some (from the entry's path to its new name) and none for an entry whose
\* new_filename is None: after a successful rename_all there are as many
\* renames as Some entries and the None entries are in the directory as
\* they were.
C23_RenamesFollowPlanOrder ==
    /\ HasPlan =>
          \A i, j \in 1..Len(plan) :
              i < j => plan[i].file_info.number_group_value
                          <= plan[j].file_info.number_group_value
    /\ HasPlan =>
          /\ Len(log) <= Cardinality(SomePositions)
          /\ \A k \in 1..Len(log) :
                /\ log[k].old = plan[SomePosition(k)].file_info.path
                /\ log[k].new = plan[SomePosition(k)].new_filename.v
    /\ pc = "done" =>
          /\ Len(log) = Cardinality(SomePositions)
          /\ \A i \in 1..Len(plan) :
                ~plan[i].new_filename.some =>
                    /\ FsEntry(fs0, plan[i].file_info.path) \in fs
                    /\ \A k \in 1..Len(log) :
                          /\ log[k].old # plan[i].file_info.path
                          /\ log[k].new # plan[i].file_info.path

\* rename_all has succeeded with two renames of files with different numbers
\* and has left a file alone
C23_Witness ==
    /\ pc = "done"
    /\ Len(log) = 2
    /\ Len(plan) = 3
    /\ plan[SomePosition(1)].file_info.number_group_value
          < plan[SomePosition(2)].file_info.number_group_value

\* digit_count of a number given as its numeral: the number of its decimal
\* digits, and 0 for the number 0
NumeralDigitCount(n) == IF n = <<48>> THEN 0 ELSE Len(n)

\* C24: when NFLZAssistant::new builds a plan, max_digit_width is
\* digit_count of the largest number_value and no entry has a digit_count
\* above it; the subtraction max_digits - digits never underflows.
C24_MaxDigitWidthCoversEveryEntry ==
    ret.fn = "find_max_digits" =>
        /\ \A i \in 1..2 :
              ret.v.digits_to_add[i].panic
                  \notin {SubtractionUnderflow(c) : c \in BOOLEAN}
        /\ (\A i \in 1..2 : ret.v.digits_to_add[i].panic = "") =>
              /\ ret.v.max_digits.value
                    = NumeralDigitCount(MaxNumeral(ret.v.numbers[1], ret.v.numbers[2]))
              /\ \A i \in 1..2 :
                    NumeralDigitCount(ret.v.numbers[i]) <= ret.v.max_digits.value

\* the numbers of digits the groups of the parsable files of a directory
\* are written with
WrittenWidths(d) == {Len(GroupDigits(x.name)) : x \in ParsableEntries(d)}

\* C25: on a directory whose parsable files all have groups written with
\* the same number of digits (the value 0 and leading zeroes included),
\* NFLZAssistant::new returns a plan whose entries all have new_filename
\* None, and rename_all renames nothing.
C25_EqualWidthsNeedNoRename ==
    (run >= 1 /\ Cardinality(WrittenWidths(fs0)) = 1) =>
        /\ pc # "panicked"
        /\ \A i \in 1..Len(plan) : ~plan[i].new_filename.some
        /\ log = <<>>
        /\ fs = fs0

\* C26: on a directory with at least one parsable file NFLZAssistant::new
\* returns a plan and no assertion fails; if the largest number_value is 0
\* no entry of the plan needs a rename.
C26_NewReturnsAPlan ==
    (run >= 1 /\ ParsableEntries(fs0) # {}) =>
        /\ pc # "panicked"
        /\ LargestGroupNumber(ParsableEntries(fs0)) = 0 =>
              \A i \in 1..Len(plan) : ~plan[i].new_filename.some

\* the elements of a sequence
Elements(l) == {l[i] : i \in 1..Len(l)}

\* the one error the priority of the defects selects for the plan
ErrorByPriority ==
    IF ConflictingEntries # {} THEN "ConflictingFiles"
    ELSE IF Cardinality(PlanPrefixes) > 1 THEN "AmbiguousPrefixes"
    ELSE IF Cardinality(PlanSuffixes) > 1 /\ ~TwoSuffixesDifferInCaseOnly
    THEN "AmbiguousSuffixes"
    ELSE "Ok"

\* check_can_rename_all gives r for the plan in the order q
SameAsChecked(r) ==
    /\ r.kind = checked.kind
    /\ r.set = checked.set
    /\ Elements(r.paths) = Elements(checked.paths)

\* C27: of several defects of a plan check_can_rename_all reports one, by
\* a fixed priority: ConflictingFiles if a destination exists, else
\* AmbiguousPrefixes if there is more than one prefix, else
\* AmbiguousSuffixes; the result is the same for every order of the
\* entries of the plan.
C27_OneErrorByPriority ==
    (HasPlan /\ checked.kind # "NotCalled") =>
        /\ checked.kind = ErrorByPriority
        /\ \A q \in Orders(Len(plan)) :
              SameAsChecked(check_can_rename_all(InOrder(plan, q), fs0))

\* the validation has reported ConflictingFiles for a plan that has more
\* than one prefix and more than one suffix as well
C27_Witness ==
    /\ HasPlan
    /\ checked.kind = "ConflictingFiles"
    /\ Cardinality(PlanPrefixes) > 1
    /\ Cardinality(PlanSuffixes) > 1
    /\ ~TwoSuffixesDifferInCaseOnly

\* "y\n" and " Y \r\n": the lines of StdinLines that are "y" once trimmed
\* and lower-cased
YesLines == {<<121, 10>>, <<32, 89, 32, 13, 10>>}

\* the user was asked once and the answer read is a yes
AnsweredYes == Len(stdin) = 1 /\ stdin[1].ok /\ stdin[1].line \in YesLines

\* C28: the command line program renames nothing unless the answer read,
\* trimmed and lower-cased, is "y"; any other answer, and a read error,
\* ends the run with the directory unchanged; when no entry of the plan
\* needs a rename the program exits without a prompt and without a rename.
C28_NoRenameWithoutYes ==
    /\ (log # <<>> \/ fs # fs0) => (AnsweredYes /\ confirmed = "yes")
    /\ (stdin # <<>> /\ ~AnsweredYes) =>
          /\ confirmed = "no"
          /\ pc = "exited"
          /\ log = <<>>
          /\ fs = fs0
    /\ (run >= 1 /\ pc # "panicked" /\ SomePositions = {}) =>
          /\ pc = "exited"
          /\ stdin = <<>>
          /\ log = <<>>
          /\ fs = fs0

\* the program has renamed a file after the answer " Y \r\n"
C28_Witness ==
    /\ pc = "exited"
    /\ log # <<>>
    /\ stdin = <<ReadLine(<<32, 89, 32, 13, 10>>)>>

\* the errors rename_all can return
FatalErrors == {"ConflictingFiles", "AmbiguousPrefixes", "AmbiguousSuffixes",
                "RenameFailed"}

\* C29: whichever error rename_all returns (ConflictingFiles,
\* AmbiguousPrefixes, AmbiguousSuffixes, RenameFailed), the command line
\* program ends by printing a message for it and never in its branch for
\* an unexpected error.
C29_EveryFatalErrorIsRendered ==
    result.kind \in FatalErrors => pc # "panicked"

\* C30: rename_all tests the destinations once, in its validation.  A file
\* another process creates at a destination afterwards is not detected:
\* rename_all never returns ConflictingFiles for it and goes on with its
\* renames in plan order; a rename onto an existing path happens only onto
\* such a file.
C30_OverwriteOnlyUnderInterference ==
    /\ external # {} => result.kind # "ConflictingFiles"
    /\ external # {} =>
          \A k \in 1..Len(log) :
              log[k].old = plan[SomePosition(k)].file_info.path
    /\ \A k \in 1..Len(log) : log[k].existed => log[k].new \in external

====
